---- MODULE Spec2Model ----
(***************************************************************************)
(* Checkpoint retention of Tutorials/6_SavingAndLoadingModels.ipynb:       *)
(* checkpoints are written as check_<timestamp()>.pth by the training      *)
(* loops, listed with sorted(glob.glob('check_*.pth')), pruned with        *)
(* `for file in checkpoints[:-3]: os.remove(file)` and restored with       *)
(* torch.load(checkpoints[-1]).                                            *)
(*                                                                         *)
(* File names are Python strings; they are modelled as sequences of        *)
(* character codes so that sorted() compares them as Python does.          *)
(***************************************************************************)
EXTENDS Integers, Sequences, FiniteSets

VARIABLES
    pc,           \* the position of the notebook's execution
    storage,      \* the working directory: file name -> payload
    keep_count,   \* the retention count of the cleanup slice (3 in the notebook)
    checkpoints,  \* the notebook's global `checkpoints` (last listing taken)
    idx,          \* position of `for file in checkpoints[:-keep]` (files done)
    removed,      \* files the running/last cleanup has removed, in order
    error,        \* the exception that stopped the execution, or "none"
    latest,       \* the name the restore cell selected (checkpoints[-1])
    checkpoint,   \* the notebook's global `checkpoint` (payload loaded)
    epoch,        \* the loop variable of the running training loop
    iter,         \* iterations the running training loop has completed
    last_epoch,   \* the notebook's global `last_epoch`
    network,      \* model state: number of training epochs applied
    now,          \* the last reading of the wall clock
    log,          \* one record per finished cleanup (history)
    env_removed,  \* files removed by another process (history)
    written,      \* the torch.save calls of the training loops: name, instant (history)
    cwd_exists,   \* whether the working directory exists
    network2,     \* the notebook's global `network2` (torch.load('model.pth'))
    env_written,  \* checkpoints written by another process (history)
    saves         \* number of torch.save calls of the training loops (history)

vars == <<pc, storage, keep_count, checkpoints, idx, removed, error, latest,
          checkpoint, epoch, iter, last_epoch, network, now, log, env_removed,
          written, cwd_exists, network2, env_written, saves>>

----------------------------------------------------------------------------
(* Bounds of the model.                                                    *)

\* Most files a directory holds when the retention cells start.
MaxFiles == 5
\* Greatest retention count tried.
MaxKeep == 4
\* Retention counts down to -MaxNegKeep are tried.
MaxNegKeep == 1
\* Most files another process removes during one run.
MaxEnvRemovals == 1
\* Most checkpoints another process writes during one run.
MaxEnvWrites == 1
\* Most unreadable files a directory holds when the retention cells start.
MaxCorrupt == 1

(* Program constants.                                                      *)

\* EPOCHS = 1000
EPOCHS == 1000
\* epoch % 200 == 0
SaveEvery == 200
\* checkpoints[:-3]
KEEP == 3

----------------------------------------------------------------------------
(* Strings as sequences of character codes.                                *)

\* "check_"
Prefix == <<99, 104, 101, 99, 107, 95>>
\* ".pth"
Suffix == <<46, 112, 116, 104>>
\* "model.pth"
ModelFile == <<109, 111, 100, 101, 108, 46, 112, 116, 104>>
\* "_"
Underscore == <<95>>

\* one decimal digit as a character
Digit(d) == 48 + d

\* %d, %H, %M, %S: two digits, zero padded
Pad2(n) == <<Digit((n \div 10) % 10), Digit(n % 10)>>

\* %Y: the year with century
Pad4(n) == <<Digit((n \div 1000) % 10), Digit((n \div 100) % 10),
             Digit((n \div 10) % 10), Digit(n % 10)>>

\* %b: the abbreviated month name (C/English locale)
MonthAbbr(m) ==
    CASE m = 1  -> <<74, 97, 110>>     \* Jan
      [] m = 2  -> <<70, 101, 98>>     \* Feb
      [] m = 3  -> <<77, 97, 114>>     \* Mar
      [] m = 4  -> <<65, 112, 114>>    \* Apr
      [] m = 5  -> <<77, 97, 121>>     \* May
      [] m = 6  -> <<74, 117, 110>>    \* Jun
      [] m = 7  -> <<74, 117, 108>>    \* Jul
      [] m = 8  -> <<65, 117, 103>>    \* Aug
      [] m = 9  -> <<83, 101, 112>>    \* Sep
      [] m = 10 -> <<79, 99, 116>>     \* Oct
      [] m = 11 -> <<78, 111, 118>>    \* Nov
      [] m = 12 -> <<68, 101, 99>>     \* Dec

\* time.strftime('%Y_%b_%d_%H_%M_%S', t)
timestamp(t) ==
    Pad4(t.tm_year) \o Underscore \o MonthAbbr(t.tm_mon) \o Underscore \o
    Pad2(t.tm_mday) \o Underscore \o Pad2(t.tm_hour) \o Underscore \o
    Pad2(t.tm_min) \o Underscore \o Pad2(t.tm_sec)

\* f"check_{timestamp()}.pth"
CheckName(t) == Prefix \o timestamp(t) \o Suffix

\* Python's str `<`: by code point, a proper prefix is smaller
StrLess(a, b) ==
    \/ /\ Len(a) < Len(b)
       /\ \A i \in 1..Len(a) : a[i] = b[i]
    \/ \E i \in 1..Len(a) :
         /\ i <= Len(b)
         /\ a[i] < b[i]
         /\ \A j \in 1..(i - 1) : a[j] = b[j]

StrLeq(a, b) == a = b \/ StrLess(a, b)

----------------------------------------------------------------------------
(* The wall clock.  time.localtime() returns a struct_time; the readings   *)
(* the model tries are a few calendar instants, among them the first two   *)
(* of the notebook's own output, the turn of a month and of a year.        *)

StructTime(y, mo, d, h, mi, s) ==
    [tm_year |-> y, tm_mon |-> mo, tm_mday |-> d,
     tm_hour |-> h, tm_min |-> mi, tm_sec |-> s]

Instants ==
    { StructTime(2021, 9, 19, 17, 24, 39),
      StructTime(2021, 9, 19, 17, 24, 40),
      StructTime(2021, 9, 30, 23, 59, 59),
      StructTime(2021, 10, 1, 0, 0, 0),
      StructTime(2022, 1, 1, 0, 0, 0) }

\* t1 is an earlier instant than t2
Before(t1, t2) ==
    LET a == <<t1.tm_year, t1.tm_mon, t1.tm_mday, t1.tm_hour, t1.tm_min, t1.tm_sec>>
        b == <<t2.tm_year, t2.tm_mon, t2.tm_mday, t2.tm_hour, t2.tm_min, t2.tm_sec>>
    IN  \E i \in 1..6 : a[i] < b[i] /\ \A j \in 1..(i - 1) : a[j] = b[j]

\* the clock before its first reading
Epoch0 == StructTime(1970, 1, 1, 0, 0, 0)

----------------------------------------------------------------------------
(* Listing, pruning and restoring.                                         *)

\* fnmatch of '*.pth'
MatchesSuffix(name) ==
    /\ Len(name) >= Len(Suffix)
    /\ SubSeq(name, Len(name) - Len(Suffix) + 1, Len(name)) = Suffix

\* fnmatch of 'check_*.pth'
Matches(name) ==
    /\ Len(name) >= Len(Prefix) + Len(Suffix)
    /\ SubSeq(name, 1, Len(Prefix)) = Prefix
    /\ SubSeq(name, Len(name) - Len(Suffix) + 1, Len(name)) = Suffix

\* the matching names of the directory
Glob(st) == { n \in DOMAIN st : Matches(n) }

\* the sequences that enumerate set S, each element once
RECURSIVE Orders(_)
Orders(S) ==
    IF S = {} THEN {<<>>}
    ELSE UNION { { <<x>> \o o : o \in Orders(S \ {x}) } : x \in S }

\* the outcomes of scanning the directory for the pattern when the scan of
\* a directory that does not exist raises, as os.listdir does
GlobResultsRaising(st, exists) ==
    IF exists THEN { [ok |-> TRUE, found |-> o] : o \in Orders(Glob(st)) }
    ELSE { [ok |-> FALSE, found |-> <<>>] }

\* glob.glob('check_*.pth'): the matching names, in whatever order the
\* directory enumerates them; a directory that cannot be scanned (it does
\* not exist) yields nothing, glob swallows the OSError.  Not ok is an
\* exception.
GlobResults(st, exists) ==
    IF exists THEN { [ok |-> TRUE, found |-> o] : o \in Orders(Glob(st)) }
    ELSE { [ok |-> TRUE, found |-> <<>>] }

\* x put at its place in the ascending sequence s
RECURSIVE Insert(_, _)
Insert(x, s) ==
    IF s = <<>> THEN <<x>>
    ELSE IF StrLess(x, Head(s)) THEN <<x>> \o s
    ELSE <<Head(s)>> \o Insert(x, Tail(s))

\* the listing left as glob returned it
Unsorted(seq) == seq

\* sorted(...): ascending by str comparison
RECURSIVE Sorted(_)
Sorted(seq) ==
    IF seq = <<>> THEN <<>>
    ELSE Insert(seq[Len(seq)], Sorted(SubSeq(seq, 1, Len(seq) - 1)))

\* sorted(glob.glob('check_*.pth')), for glob's result `found`
ListCheckpoints(found) == Sorted(found)

\* Python's seq[:stop]
SliceTo(seq, stop) ==
    LET n == Len(seq)
        s == IF stop < 0 THEN (IF n + stop < 0 THEN 0 ELSE n + stop)
             ELSE (IF stop > n THEN n ELSE stop)
    IN  SubSeq(seq, 1, s)

\* the slice with its sign dropped, checkpoints[:keep]
PruneTargetsSignDropped(list, keep) == SliceTo(list, keep)

\* the slice off by one, checkpoints[:-(keep+1)]
PruneTargetsKeepOneMore(list, keep) == SliceTo(list, 0 - (keep + 1))

\* no slice, every listed file: `for file in checkpoints`
PruneTargetsWhole(list, keep) == list

\* the slice from the other end, checkpoints[keep:]
PruneTargetsFromKeep(list, keep) ==
    LET n == Len(list)
        s == IF keep < 0 THEN (IF n + keep < 0 THEN 0 ELSE n + keep)
             ELSE (IF keep > n THEN n ELSE keep)
    IN  SubSeq(list, s + 1, n)

\* checkpoints[:-keep]: the files the cleanup loop removes
PruneTargets(list, keep) == SliceTo(list, 0 - keep)

\* Python's seq[i]: a record [ok, value]; not ok is IndexError
NoValue == <<>>
Index(seq, i) ==
    LET n == Len(seq)
        k == IF i < 0 THEN n + i ELSE i
    IN  IF k < 0 \/ k >= n THEN [ok |-> FALSE, value |-> NoValue]
        ELSE [ok |-> TRUE, value |-> seq[k + 1]]

\* the first element instead of the last, checkpoints[0]
LatestFirst(list) == Index(list, 0)

\* checkpoints[-1]
Latest(list) == Index(list, 0 - 1)

\* the directory without file f
Without(st, f) == [n \in DOMAIN st \ {f} |-> st[n]]

\* a save that, when file f is already there, writes a second file
\* (f with "_1" before its last four characters) instead of replacing f
WithCopy(st, f, p) ==
    LET g == IF f \in DOMAIN st
             THEN SubSeq(f, 1, Len(f) - 4) \o <<95, 49>> \o SubSeq(f, Len(f) - 3, Len(f))
             ELSE f
    IN  [n \in DOMAIN st \cup {g} |-> IF n = g THEN p ELSE st[n]]

\* a save that leaves a file that is already there as it is
WithKeepExisting(st, f, p) ==
    [n \in DOMAIN st \cup {f} |-> IF n \in DOMAIN st THEN st[n] ELSE p]

\* the directory with file f holding payload p (an existing file is replaced)
With(st, f, p) == [n \in DOMAIN st \cup {f} |-> IF n = f THEN p ELSE st[n]]

\* the dict torch.save writes in the training loops
Payload(e, net) == [epoch |-> e, model_state_dict |-> net, optimizer_state_dict |-> net]

\* nothing loaded
NoCheckpoint == [epoch |-> 0, model_state_dict |-> 0, optimizer_state_dict |-> 0]

\* torch.save(network, 'model.pth') writes the whole module
WholeModel(net) == [epoch |-> 0, model_state_dict |-> net, optimizer_state_dict |-> 0]

\* the content of a file torch.load cannot read
Unreadable == [epoch |-> 0 - 1, model_state_dict |-> 0 - 1, optimizer_state_dict |-> 0 - 1]

\* a load that hands back whatever the file holds
LoadUnchecked(st, f) ==
    IF f \notin DOMAIN st
    THEN [ok |-> FALSE, error |-> "FileNotFoundError", value |-> NoCheckpoint]
    ELSE [ok |-> TRUE, error |-> "none", value |-> st[f]]

\* torch.load(f): the object torch.save wrote to f; not ok is an exception
\* (the file is not there, or its content cannot be unpickled)
Load(st, f) ==
    IF f \notin DOMAIN st
    THEN [ok |-> FALSE, error |-> "FileNotFoundError", value |-> NoCheckpoint]
    ELSE IF st[f] = Unreadable
    THEN [ok |-> FALSE, error |-> "UnpicklingError", value |-> NoCheckpoint]
    ELSE [ok |-> TRUE, error |-> "none", value |-> st[f]]

\* if epoch % 200 == 0 or epoch == EPOCHS
SaveDue(e) == e % SaveEvery = 0 \/ e = EPOCHS

\* what a finished cleanup did
CleanupRecord(err) ==
    [listing |-> checkpoints, keep |-> keep_count, removed |-> removed,
     after |-> Glob(storage), error |-> err]

----------------------------------------------------------------------------
(* The cells of the notebook, in the order they run.                       *)

\* torch.save(network, 'model.pth')
SaveWholeModel ==
    /\ pc = "save_model"
    /\ storage' = With(storage, ModelFile, WholeModel(network))
    /\ pc' = "load_model"
    /\ UNCHANGED <<keep_count, checkpoints, idx, removed, error, latest,
                   checkpoint, epoch, iter, last_epoch, network, now, log,
                   env_removed, written, cwd_exists, network2, env_written, saves>>

\* network2 = torch.load('model.pth')
LoadWholeModel ==
    /\ pc = "load_model"
    /\ LET r == Load(storage, ModelFile)
       IN  IF r.ok
           THEN /\ network2' = r.value
                /\ pc' = "train"
                /\ UNCHANGED error
           ELSE /\ error' = r.error
                /\ pc' = "failed"
                /\ UNCHANGED network2
    /\ UNCHANGED <<storage, keep_count, checkpoints, idx, removed, latest,
                   checkpoint, epoch, iter, last_epoch, network, now, log,
                   env_removed, written, cwd_exists, env_written, saves>>

\* One iteration of a training loop for epoch number e: train, then save a
\* checkpoint named by the clock's reading when SaveDue(e); the loop ends
\* after EPOCHS iterations and control passes to `next`.
Iteration(e, next) ==
    /\ iter < EPOCHS
    /\ epoch' = e
    /\ network' = network + 1
    /\ iter' = IF iter + 1 = EPOCHS THEN 0 ELSE iter + 1
    /\ pc' = IF iter + 1 = EPOCHS THEN next ELSE pc
    /\ IF SaveDue(e)
       THEN \E t \in Instants :
              /\ ~Before(t, now)
              /\ now' = t
              /\ storage' = With(storage, CheckName(t), Payload(e, network'))
              /\ written' = written \cup {[name |-> CheckName(t), at |-> t]}
       ELSE UNCHANGED <<storage, now, written>>
    /\ saves' = IF SaveDue(e) THEN saves + 1 ELSE saves
    /\ UNCHANGED <<keep_count, checkpoints, idx, removed, error, latest,
                   checkpoint, last_epoch, log, env_removed, cwd_exists,
                   network2, env_written>>

\* for epoch in trange(1, EPOCHS+1): ...
TrainEpoch ==
    /\ pc = "train"
    /\ Iteration(1 + iter, "clean_list")

\* for epoch in trange(last_epoch, last_epoch+EPOCHS): ...
ResumeEpoch ==
    /\ pc = "resume"
    /\ Iteration(last_epoch + iter, "clean2_list")

\* checkpoints = sorted(glob.glob('check_*.pth'))
CleanupList(here, loop) ==
    /\ pc = here
    /\ \E r \in GlobResults(storage, cwd_exists) :
         IF r.ok
         THEN /\ checkpoints' = ListCheckpoints(r.found)
              /\ idx' = 0
              /\ removed' = <<>>
              /\ pc' = loop
              /\ UNCHANGED error
         ELSE /\ error' = "FileNotFoundError"
              /\ pc' = "failed"
              /\ UNCHANGED <<checkpoints, idx, removed>>
    /\ UNCHANGED <<storage, keep_count, latest, checkpoint, epoch, iter,
                   last_epoch, network, now, log, env_removed, written, cwd_exists, network2, env_written, saves>>

\* for file in checkpoints[:-3]: os.remove(file)
\* One step is one os.remove, or the end of the loop; os.remove of a file
\* that is not there raises FileNotFoundError, which ends the execution.
CleanupRemove(loop, next) ==
    /\ pc = loop
    /\ LET targets == PruneTargets(checkpoints, keep_count)
       IN  IF idx < Len(targets)
           THEN LET file == targets[idx + 1]
                IN  IF file \in DOMAIN storage
                    THEN /\ storage' = Without(storage, file)
                         /\ removed' = Append(removed, file)
                         /\ idx' = idx + 1
                         /\ UNCHANGED <<pc, error, log>>
                    ELSE /\ error' = "FileNotFoundError"
                         /\ pc' = "failed"
                         /\ log' = Append(log, CleanupRecord("FileNotFoundError"))
                         /\ UNCHANGED <<storage, removed, idx>>
           ELSE /\ pc' = next
                /\ log' = Append(log, CleanupRecord("none"))
                /\ UNCHANGED <<storage, removed, idx, error>>
    /\ UNCHANGED <<keep_count, checkpoints, latest, checkpoint, epoch, iter,
                   last_epoch, network, now, env_removed, written, cwd_exists, network2, env_written, saves>>

\* checkpoint = torch.load(checkpoints[-1]); network.load_state_dict(...);
\* optimizer.load_state_dict(...); last_epoch = checkpoint['epoch']
\* checkpoints[-1] of an empty list raises IndexError, torch.load of a file
\* that is not there or cannot be read raises; nothing is assigned then.
Restore(next) ==
    /\ pc = "restore"
    /\ LET l == Latest(checkpoints)
       IN  IF ~l.ok
           THEN /\ error' = "IndexError"
                /\ pc' = "failed"
                /\ UNCHANGED <<latest, checkpoint, network, last_epoch>>
           ELSE /\ latest' = l.value
                /\ LET r == Load(storage, l.value)
                   IN  IF r.ok
                       THEN /\ checkpoint' = r.value
                            /\ network' = r.value.model_state_dict
                            /\ last_epoch' = r.value.epoch
                            /\ pc' = next
                            /\ UNCHANGED error
                       ELSE /\ error' = r.error
                            /\ pc' = "failed"
                            /\ UNCHANGED <<checkpoint, network, last_epoch>>
    /\ UNCHANGED <<storage, keep_count, checkpoints, idx, removed, epoch, iter,
                   now, log, env_removed, written, cwd_exists, network2, env_written, saves>>

\* cell 9: the cleanup after the first training loop
Cleanup1List == CleanupList("clean_list", "clean_loop")
Cleanup1Remove == CleanupRemove("clean_loop", "restore")
\* the cleanup that ends the last cell
Cleanup2List == CleanupList("clean2_list", "clean2_loop")
Cleanup2Remove == CleanupRemove("clean2_loop", "done")

\* cell 10, followed by the resumed training loop
RestoreCell == Restore("resume")
\* cell 10, followed at once by the last cleanup
RestoreThenCleanup == Restore("clean2_list")

\* Another process removes a checkpoint file while a cleanup loop runs.
EnvRemove ==
    /\ pc \in {"clean_loop", "clean2_loop"}
    /\ Len(env_removed) < MaxEnvRemovals
    /\ \E f \in Glob(storage) :
         /\ storage' = Without(storage, f)
         /\ env_removed' = Append(env_removed, f)
    /\ UNCHANGED <<pc, keep_count, checkpoints, idx, removed, error, latest,
                   checkpoint, epoch, iter, last_epoch, network, now, log,
                   written, cwd_exists, network2, env_written, saves>>

\* Another process runs the save of the training loop (torch.save to
\* f"check_{timestamp()}.pth") while the retention cells run.
EnvWrite ==
    /\ pc \in {"clean_list", "clean_loop", "restore", "clean2_list", "clean2_loop"}
    /\ cwd_exists
    /\ Len(env_written) < MaxEnvWrites
    /\ \E t \in Instants :
         /\ ~Before(t, now)
         /\ now' = t
         /\ storage' = With(storage, CheckName(t), Payload(EPOCHS, EPOCHS))
         /\ env_written' = Append(env_written,
                                  [name |-> CheckName(t), at |-> t, during |-> pc,
                                   idx |-> idx, cleanups |-> Len(log)])
    /\ UNCHANGED <<pc, keep_count, checkpoints, idx, removed, error, latest,
                   checkpoint, epoch, iter, last_epoch, network, log,
                   env_removed, written, cwd_exists, network2, saves>>

----------------------------------------------------------------------------
(* The notebook run from its first cell in an empty directory.             *)

Idle ==
    /\ checkpoints = <<>>
    /\ idx = 0
    /\ removed = <<>>
    /\ error = "none"
    /\ latest = NoValue
    /\ checkpoint = NoCheckpoint
    /\ epoch = 0
    /\ iter = 0
    /\ last_epoch = 0
    /\ network = 0
    /\ log = <<>>
    /\ env_removed = <<>>
    /\ written = {}
    /\ network2 = NoCheckpoint
    /\ env_written = <<>>
    /\ saves = 0

Init ==
    /\ pc = "save_model"
    /\ storage = <<>>
    /\ cwd_exists = TRUE
    /\ keep_count = KEEP
    /\ now = Epoch0
    /\ Idle

Next ==
    \/ SaveWholeModel
    \/ LoadWholeModel
    \/ TrainEpoch
    \/ Cleanup1List
    \/ Cleanup1Remove
    \/ RestoreCell
    \/ ResumeEpoch
    \/ Cleanup2List
    \/ Cleanup2Remove

Spec == Init /\ [][Next]_vars

----------------------------------------------------------------------------
(* The retention cells (cleanup, restore, cleanup) run on any directory    *)
(* and any retention count.                                                *)

\* the names a directory may hold: checkpoints of any instant, and model.pth
AllNames == { CheckName(t) : t \in Instants } \cup {ModelFile}

\* the payload of a file found in the directory
FoundPayload == Payload(EPOCHS, EPOCHS)

\* the clock's reading that gave a checkpoint its name
InstantOf(name) == CHOOSE t \in Instants : CheckName(t) = name

\* the latest instant at which a checkpoint of the set S was written, which
\* the clock has reached
LatestInstant(S) ==
    LET ts == { t \in Instants : CheckName(t) \in S }
    IN  IF ts = {} THEN Epoch0
        ELSE CHOOSE t \in ts : \A u \in ts : ~Before(t, u)

InitPrune ==
    /\ pc = "clean_list"
    /\ cwd_exists \in BOOLEAN
    /\ \E S \in SUBSET AllNames :
         /\ Cardinality(S) <= MaxFiles
         /\ ~cwd_exists => S = {}
         /\ now = LatestInstant(S)
         /\ \E U \in SUBSET S :
              /\ Cardinality(U) <= MaxCorrupt
              /\ storage = [n \in S |-> IF n \in U THEN Unreadable
                                                  ELSE FoundPayload]
    /\ keep_count \in (0 - MaxNegKeep)..MaxKeep
    /\ Idle

NextPrune ==
    \/ Cleanup1List
    \/ Cleanup1Remove
    \/ RestoreThenCleanup
    \/ Cleanup2List
    \/ Cleanup2Remove

SpecPrune == InitPrune /\ [][NextPrune]_vars

\* the same, with another process removing files
NextConc ==
    \/ NextPrune
    \/ EnvRemove

SpecConc == InitPrune /\ [][NextConc]_vars

\* the retention cells, with another process writing checkpoints
NextWriter ==
    \/ NextPrune
    \/ EnvWrite

SpecWriter == InitPrune /\ [][NextWriter]_vars

----------------------------------------------------------------------------
(* Properties.                                                             *)

\* the elements of a sequence
Range(seq) == { seq[i] : i \in 1..Len(seq) }

\* the instant at which the training loops wrote file n
WrittenAt(n) == (CHOOSE w \in written : w.name = n).at

\* the number of files a prune of a list of n files is to remove
Stale(n, keep) == IF n - keep > 0 THEN n - keep ELSE 0

C1_PruneRemovesSmallestPositiveKeep ==
    \A i \in 1..Len(log) :
        log[i].keep >= 1 =>
            LET n == Len(log[i].listing)
                k == Stale(n, log[i].keep)
            IN  /\ log[i].removed = SubSeq(log[i].listing, 1, k)
                /\ log[i].after = { log[i].listing[j] : j \in (k + 1)..n }

\* C2: after a cleanup of the notebook, no checkpoint that survived was
\* written earlier than a checkpoint the cleanup removed.
C2_SurvivorsAreNewest ==
    \A i \in 1..Len(log) :
        \A s \in log[i].after : \A d \in Range(log[i].removed) :
            ~Before(WrittenAt(s), WrittenAt(d))

\* C3: of two checkpoints written at different instants, the one written
\* earlier has the lexicographically smaller name.
C3_NamesSortInCreationOrder ==
    \A w1 \in written : \A w2 \in written :
        Before(w1.at, w2.at) => StrLess(w1.name, w2.name)

C5_PruneIdempotent ==
    (Len(log) = 2 /\ keep_count >= 0) =>
        /\ log[2].removed = <<>>
        /\ log[2].after = log[1].after
        /\ log[2].error = "none"

\* C5 witness: two cleanups have run and the first removed at least two files.
C5_Witness ==
    /\ Len(log) = 2
    /\ keep_count >= 1
    /\ Len(log[1].removed) >= 2
    /\ pc = "done"

C7_LatestIsLast ==
    (pc \in {"clean2_list", "failed"} /\ Len(log) = 1 /\ checkpoints # <<>>) =>
        /\ error # "IndexError"
        /\ latest = checkpoints[Len(checkpoints)]
        /\ \A i \in 1..Len(checkpoints) : StrLeq(checkpoints[i], latest)

\* C7 witness: the restore cell selected from a listing of several names.
C7_Witness ==
    /\ pc = "clean2_list"
    /\ Len(checkpoints) >= 3
    /\ latest = checkpoints[Len(checkpoints)]

\* C8: when the directory holds no checkpoint and keep_count = 3, the cleanup
\* removes nothing and the restore cell ends without an error, having
\* selected nothing.
C8_EmptyResumeSucceeds ==
    (keep_count = KEEP /\ Len(log) >= 1 /\ log[1].listing = <<>> /\ pc # "restore") =>
        /\ log[1].removed = <<>>
        /\ error = "none"
        /\ latest = NoValue

\* C9: a cleanup (keep_count >= 1) that meets a file another process has
\* removed goes on: it ends without an error and none of the stale files of
\* its listing is left.
C9_MissingFileIsNoOp ==
    \A i \in 1..Len(log) :
        log[i].keep >= 1 =>
            /\ log[i].error = "none"
            /\ \A j \in 1..Stale(Len(log[i].listing), log[i].keep) :
                  log[i].listing[j] \notin log[i].after

Ascending(seq) == \A i \in 1..(Len(seq) - 1) : StrLess(seq[i], seq[i + 1])

\* C11: a listing just taken holds exactly the matching names of the
\* directory in ascending order, and every order in which the directory may
\* enumerate its entries gives the same listing.
C11_ListingSortedExact ==
    /\ (pc \in {"clean_loop", "clean2_loop"} /\ idx = 0) =>
          /\ Range(checkpoints) = Glob(storage)
          /\ Len(checkpoints) = Cardinality(Glob(storage))
          /\ Ascending(checkpoints)
    /\ pc \in {"clean_list", "clean2_list"} =>
          Cardinality({ ListCheckpoints(r.found) :
                          r \in GlobResults(storage, cwd_exists) }) = 1

\* C11 witness: a listing of three or more checkpoints was taken of a
\* directory that also holds model.pth.
C11_Witness ==
    /\ pc = "clean_loop"
    /\ idx = 0
    /\ Len(checkpoints) >= 3
    /\ ModelFile \in DOMAIN storage
    /\ Range(checkpoints) = Glob(storage)

\* C12: a listing taken of a directory that holds no checkpoint, or of a
\* directory that does not exist, is the empty sequence and no error is
\* raised.
C12_EmptyListing ==
    (Len(log) = 0 /\ removed = <<>> /\ (~cwd_exists \/ Glob(storage) = {})) =>
        /\ pc \in {"clean_list", "clean_loop"}
        /\ checkpoints = <<>>
        /\ error = "none"

\* C12 witness: the listing of a directory that does not exist was taken.
C12_Witness ==
    /\ ~cwd_exists
    /\ pc = "clean_loop"
    /\ checkpoints = <<>>

\* C12 witness for a directory that exists and holds only model.pth.
C12_WitnessEmpty ==
    /\ cwd_exists
    /\ DOMAIN storage = {ModelFile}
    /\ pc = "clean_loop"
    /\ checkpoints = <<>>

C14_WrittenSurvivesPrune ==
    \A i \in 1..Len(env_written) :
        LET w == env_written[i]
        IN  ( /\ keep_count >= 1
              /\ w.during \in {"clean_loop", "clean2_loop"}
              /\ w.idx = 0
              /\ Len(log) > w.cleanups
              /\ log[w.cleanups + 1].error = "none" ) =>
                 /\ w.name \notin Range(log[w.cleanups + 1].removed)
                 /\ w.name \in log[w.cleanups + 1].after

\* the k checkpoints of the set S written last
NewestByTime(S, k) ==
    { f \in S : Cardinality({ g \in S : Before(InstantOf(f), InstantOf(g)) }) < k }

\* C15: when another process has written checkpoints while the retention
\* cells ran and has stopped before the last listing, the last cleanup
\* (keep_count >= 1), once complete, leaves exactly the keep_count checkpoints
\* written last (all of them if there are fewer).
C15_ConvergesToNewest ==
    ( /\ pc = "done"
      /\ keep_count >= 1
      /\ Len(env_written) >= 1
      /\ \A i \in 1..Len(env_written) : env_written[i].during # "clean2_loop" ) =>
         Glob(storage) = NewestByTime(Range(log[2].listing), keep_count)

\* C16: when the restore cell runs and the newest listed checkpoint is
\* unreadable, the cell ends with the load's error and the execution stops:
\* `checkpoint`, the model state and `last_epoch` keep their values (nothing
\* is loaded from another file) and the directory is as it was.
C16_UnreadableIsFatal ==
    [][ ( /\ pc = "restore"
          /\ Latest(checkpoints).ok
          /\ Latest(checkpoints).value \in DOMAIN storage
          /\ storage[Latest(checkpoints).value] = Unreadable ) =>
             /\ pc' = "failed"
             /\ error' = "UnpicklingError"
             /\ checkpoint' = checkpoint
             /\ network' = network
             /\ last_epoch' = last_epoch
             /\ storage' = storage ]_vars

\* C16 witness: the restore cell has failed on an unreadable newest
\* checkpoint while an older, readable checkpoint is in the directory.
C16_Witness ==
    /\ pc = "failed"
    /\ error = "UnpicklingError"
    /\ Len(checkpoints) >= 2
    /\ storage[checkpoints[Len(checkpoints)]] = Unreadable
    /\ Load(storage, checkpoints[1]).ok
    /\ checkpoint = NoCheckpoint
    /\ last_epoch = 0

\* C17: every name a cleanup lists or removes begins with "check_" and ends
\* with ".pth"; model.pth, once written, stays in the directory with the
\* content written, and no listing and no removal of any cleanup names it.
C17_OnlyPatternTouched ==
    /\ \A n \in Range(checkpoints) \cup Range(removed) : Matches(n)
    /\ \A i \in 1..Len(log) :
           ModelFile \notin Range(log[i].listing) \cup Range(log[i].removed)
    /\ pc # "save_model" =>
           /\ ModelFile \in DOMAIN storage
           /\ storage[ModelFile] = WholeModel(0)

\* C17 witness: both cleanups have run, the first removed checkpoints, and
\* model.pth is in the directory.
C17_Witness ==
    /\ pc = "done"
    /\ Len(log) = 2
    /\ Len(log[1].removed) >= 1
    /\ ModelFile \in DOMAIN storage
    /\ Cardinality(Glob(storage)) = KEEP

\* C18: in both training loops an iteration writes a checkpoint exactly when
\* its epoch number is divisible by 200 or it is the last iteration of the
\* loop.
C18_SavesAtTrigger ==
    [][ (pc = "train" \/ pc = "resume") =>
           ((saves' = saves + 1) <=> (epoch' % SaveEvery = 0 \/ iter + 1 = EPOCHS))
      ]_vars

\* C19: after the restore cell, last_epoch is the greatest epoch the initial
\* loop saved a checkpoint for, which is EPOCHS.
C19_RestoresNewest ==
    pc = "resume" => last_epoch = EPOCHS

\* C20: every epoch the resumed loop has run has a number greater than the
\* restored last_epoch.
C20_ResumesAfterLastEpoch ==
    (pc = "resume" /\ iter >= 1) => epoch > last_epoch

\* C21: with keep_count >= 0 and no other process removing files, the name
\* the restore cell takes from the listing of the cleanup before it (the last
\* name of a non-empty listing) is a file of the directory when that cleanup
\* has finished, the cleanup has not removed it, and the load never fails
\* for a missing file.
C21_RestoreTargetExists ==
    keep_count >= 0 =>
        /\ (pc = "restore" /\ checkpoints # <<>>) =>
               /\ Latest(checkpoints).value \in DOMAIN storage
               /\ Latest(checkpoints).value \notin Range(removed)
        /\ error # "FileNotFoundError"

\* C21 witness: the cleanup removed files of its listing and the restore
\* cell then loaded the last name of that listing, which is in the directory.
C21_Witness ==
    /\ pc = "clean2_list"
    /\ keep_count >= 1
    /\ Len(removed) >= 2
    /\ latest = checkpoints[Len(checkpoints)]
    /\ latest \in DOMAIN storage
    /\ checkpoint = storage[latest]
    /\ error = "none"

\* C22: a name is in the directory at most once: every listing consists of
\* distinct names, the directory never holds more checkpoints than the
\* training loops' saves had distinct clock readings, and a save at a reading
\* whose file is already there adds no file and leaves that file with the
\* payload just saved.
C22_DistinctIdentifiers ==
    [][ /\ \A i, j \in 1..Len(checkpoints') :
               i # j => checkpoints'[i] # checkpoints'[j]
        /\ Cardinality(Glob(storage')) <= Cardinality({ w.at : w \in written' })
        /\ (saves' = saves + 1 /\ CheckName(now') \in DOMAIN storage) =>
               /\ DOMAIN storage' = DOMAIN storage
               /\ storage'[CheckName(now')] = Payload(epoch', network') ]_vars

\* C22 witness: the five saves of the initial loop fell into two seconds;
\* the directory holds two checkpoints and the listing is two distinct names.
C22_Witness ==
    /\ pc = "clean_loop"
    /\ idx = 0
    /\ saves = 5
    /\ Cardinality({ w.at : w \in written }) = 2
    /\ Len(checkpoints) = 2
    /\ checkpoints[1] # checkpoints[2]
    /\ storage[CheckName(now)] = Payload(EPOCHS, EPOCHS)

\* C23: with keep_count >= 0, in every state during and after a cleanup,
\* finished or stopped by a failed os.remove, the names the cleanup has
\* removed are, in ascending order, the first names of the stale part of its
\* listing (all but the last keep_count), and each of the last keep_count
\* names of the listing is in the directory unless another process removed it.
C23_AbortedPruneKeepsRetained ==
    keep_count >= 0 =>
        LET n == Len(checkpoints)
            k == Stale(n, keep_count)
        IN  /\ Len(removed) <= k
            /\ removed = SubSeq(checkpoints, 1, Len(removed))
            /\ Ascending(removed)
            /\ \A j \in (k + 1)..n :
                   \/ checkpoints[j] \in DOMAIN storage
                   \/ checkpoints[j] \in Range(env_removed)
            /\ \A j \in (k + 1)..n : checkpoints[j] \notin Range(removed)

\* C23 witness: another process removed a stale file, the cleanup stopped
\* with FileNotFoundError after removing one file and before removing all
\* stale files, and the names it was to keep are in the directory.
C23_Witness ==
    /\ pc = "failed"
    /\ error = "FileNotFoundError"
    /\ keep_count >= 2
    /\ Len(removed) >= 1
    /\ Len(removed) + 1 < Stale(Len(checkpoints), keep_count)
    /\ \A j \in (Stale(Len(checkpoints), keep_count) + 1)..Len(checkpoints) :
           checkpoints[j] \in DOMAIN storage

====
